---- MODULE Spec2Model ----
(***************************************************************************)
(* SingularField<T> of src/lib/singular.rs: an optional value whose box    *)
(* may outlive the presence flag.  Two containers owned by one task are    *)
(* modelled; the payload type is the test's Foo { b: int }.                *)
(***************************************************************************)
EXTENDS Integers, Sequences, FiniteSets, TLC

\* ---------------------------------------------------------------- bounds
MaxB == 2          \* payload contents range over Foo { b: 0..MaxB }
MaxAllocs == 3     \* boxes allocated in one behaviour

Names == {1, 2}    \* the two containers of the task

\* ---------------------------------------------------------------- payload
Foo(k) == [b |-> k]

FooValues == {Foo(k) : k \in 0..MaxB}

\* #[deriving(Default)] struct Foo { b: int }
FooDefault == Foo(0)

\* impl Clear for Foo: self.b = 0
FooClear(v) == [v EXCEPT !.b = 0]

\* ---------------------------------------------------------------- std
None == [tag |-> "None"]

Some(v) == [tag |-> "Some", v |-> v]

Panic == [tag |-> "Panic"]

Ok(v) == [tag |-> "Ok", v |-> v]

Unit == [tag |-> "Unit"]

\* box value: a heap allocation with an identity and its contents
Box(id, v) == [id |-> id, v |-> v]

\* Option::unwrap / Option::get_ref / Option::get_mut_ref: fail on None
OptionUnwrap(o) == IF o.tag = "Some" THEN Ok(o.v) ELSE Panic

\* Option<&T> == Option<&T>: same variant, and equal referents
OptionRefEq(a, b) ==
    \/ a.tag = "None" /\ b.tag = "None"
    \/ a.tag = "Some" /\ b.tag = "Some" /\ a.v.v = b.v.v

\* Option<&T> < Option<&T>: None sorts before Some, Some by referent
OptionRefLt(a, b) ==
    \/ a.tag = "None" /\ b.tag = "Some"
    \/ a.tag = "Some" /\ b.tag = "Some" /\ a.v.v.b < b.v.v.b

\* Clear for the Option slot itself: the slot goes back to its default, None
OptionClear(o) == None

\* ---------------------------------------------------------------- results
\* outcome of one call: returned value, the container afterwards, boxes
\* allocated, closure invocations
R(ret, self, allocs, calls) ==
    [ret |-> ret, self |-> self, allocs |-> allocs, calls |-> calls]

\* ---------------------------------------------------------------- SingularField
SingularField(value, set) == [value |-> value, set |-> set]

\* some that leaves the presence flag down
some_unset(v, id) == SingularField(Some(Box(id, v)), FALSE)

some(v, id) == SingularField(Some(Box(id, v)), TRUE)

none == SingularField(None, FALSE)

from_option(option, id) ==
    IF option.tag = "Some" THEN some(option.v, id) ELSE none

is_some(self) == self.set

is_none(self) == ~is_some(self)

into_option(self) ==
    IF self.set
    THEN IF OptionUnwrap(self.value) = Panic THEN Panic
         ELSE Some(self.value.v.v)
    ELSE None

\* as_ref that looks at the slot instead of the flag
as_ref_slot(self) ==
    IF self.value.tag = "Some" THEN Some(self.value.v) ELSE None

\* a reference is modelled by the box it points into
as_ref(self) ==
    IF self.set
    THEN IF OptionUnwrap(self.value) = Panic THEN Panic
         ELSE Some(self.value.v)
    ELSE None

as_mut(self) ==
    IF self.set
    THEN IF OptionUnwrap(self.value) = Panic THEN Panic
         ELSE Some(self.value.v)
    ELSE None

\* get_ref that reads the slot without looking at the flag
get_ref_stale(self) == OptionUnwrap(self.value)

get_ref(self) ==
    IF as_ref(self) = Panic THEN Panic ELSE OptionUnwrap(as_ref(self))

get_mut_ref(self) ==
    IF as_mut(self) = Panic THEN Panic ELSE OptionUnwrap(as_mut(self))

\* as_slice that looks at the slot instead of the flag
as_slice_slot(self) ==
    IF self.value.tag = "Some" THEN Ok(<<self.value.v>>) ELSE Ok(<<>>)

as_slice(self) ==
    IF as_ref(self) = Panic THEN Panic
    ELSE IF as_ref(self).tag = "Some" THEN Ok(<<as_ref(self).v>>)
    ELSE Ok(<<>>)

as_mut_slice(self) ==
    IF as_mut(self) = Panic THEN Panic
    ELSE IF as_mut(self).tag = "Some" THEN Ok(<<as_mut(self).v>>)
    ELSE Ok(<<>>)

unwrap(self) ==
    IF self.set
    THEN IF OptionUnwrap(self.value) = Panic THEN Panic
         ELSE Ok(self.value.v.v)
    ELSE Panic

unwrap_or(self, def) ==
    IF self.set
    THEN IF OptionUnwrap(self.value) = Panic THEN Panic
         ELSE Ok(self.value.v.v)
    ELSE Ok(def)

\* f is the closure || -> T, modelled by the value it produces
unwrap_or_else(self, f) ==
    IF self.set
    THEN IF OptionUnwrap(self.value) = Panic THEN R(Panic, self, 0, 0)
         ELSE R(Ok(self.value.v.v), self, 0, 0)
    ELSE R(Ok(f), self, 0, 1)

\* map over the slot instead of the logical value
map_slot(self, f, id) ==
    IF self.value.tag = "Some"
    THEN R(Ok(from_option(Some(f[self.value.v.v]), id)), self, 1, 1)
    ELSE R(Ok(from_option(None, id)), self, 0, 0)

\* f is the closure |T| -> U, modelled by a function on payloads
map(self, f, id) ==
    IF into_option(self) = Panic THEN R(Panic, self, 0, 0)
    ELSE IF into_option(self).tag = "Some"
    THEN R(Ok(from_option(Some(f[into_option(self).v]), id)), self, 1, 1)
    ELSE R(Ok(from_option(None, id)), self, 0, 0)

\* Option::move_iter: the items the iterator yields
iter(self) ==
    IF as_ref(self) = Panic THEN Panic
    ELSE IF as_ref(self).tag = "Some" THEN Ok(<<as_ref(self).v>>)
    ELSE Ok(<<>>)

mut_iter(self) ==
    IF as_mut(self) = Panic THEN Panic
    ELSE IF as_mut(self).tag = "Some" THEN Ok(<<as_mut(self).v>>)
    ELSE Ok(<<>>)

\* take that forgets `self.set = false`
take_keeps_flag(self) ==
    IF self.set
    THEN R(Some(self.value.v.v), SingularField(None, TRUE), 0, 0)
    ELSE R(None, self, 0, 0)

\* take that only lowers the flag and leaves the box in the slot
take_keeps_box(self) ==
    IF self.set
    THEN R(Some(self.value.v.v), SingularField(self.value, FALSE), 0, 0)
    ELSE R(None, self, 0, 0)

\* take that empties the slot whatever the flag says
take_always_takes(self) ==
    IF self.set
    THEN R(Some(self.value.v.v), SingularField(None, FALSE), 0, 0)
    ELSE R(None, SingularField(None, FALSE), 0, 0)

take(self) ==
    IF self.set
    THEN IF OptionUnwrap(self.value) = Panic
         THEN R(Panic, SingularField(None, FALSE), 0, 0)
         ELSE R(Some(self.value.v.v), SingularField(None, FALSE), 0, 0)
    ELSE R(None, self, 0, 0)

\* clear that resets the payload on the way out
clear_resets(self) ==
    R(Unit, IF self.value.tag = "Some"
            THEN SingularField(Some([self.value.v EXCEPT !.v = FooClear(@)]), FALSE)
            ELSE SingularField(self.value, FALSE), 0, 0)

\* clear that also drops the box
clear_releases(self) == R(Unit, SingularField(None, FALSE), 0, 0)

\* clear that flips the flag instead of lowering it
clear_toggles(self) == R(Unit, [self EXCEPT !.set = ~@], 0, 0)

clear(self) == R(Unit, [self EXCEPT !.set = FALSE], 0, 0)

unwrap_or_default(self) ==
    IF self.set
    THEN R(unwrap(self), self, 0, 0)
    ELSE IF self.value.tag = "Some"
    THEN IF OptionUnwrap(OptionClear(self.value)) = Panic
         THEN R(Panic, [self EXCEPT !.value = OptionClear(self.value)], 0, 0)
         ELSE R(Ok(OptionClear(self.value).v.v),
                [self EXCEPT !.value = OptionClear(self.value)], 0, 0)
    ELSE R(Ok(FooDefault), self, 0, 0)

\* set_default that reuses the box without resetting it
set_default_no_reset(self, id) ==
    IF self.value.tag = "Some"
    THEN R(get_mut_ref(SingularField(self.value, TRUE)),
           SingularField(self.value, TRUE), 0, 0)
    ELSE R(get_mut_ref(SingularField(Some(Box(id, FooDefault)), TRUE)),
           SingularField(Some(Box(id, FooDefault)), TRUE), 1, 0)

set_default(self, id) ==
    IF self.value.tag = "Some"
    THEN R(get_mut_ref(SingularField(Some([self.value.v EXCEPT !.v = FooClear(@)]), TRUE)),
           SingularField(Some([self.value.v EXCEPT !.v = FooClear(@)]), TRUE), 0, 0)
    ELSE R(get_mut_ref(SingularField(Some(Box(id, FooDefault)), TRUE)),
           SingularField(Some(Box(id, FooDefault)), TRUE), 1, 0)

default == none

\* clone that copies both fields, retained box included
clone_fields(self, id) ==
    IF self.value.tag = "Some"
    THEN R(Ok(SingularField(Some(Box(id, self.value.v.v)), self.set)), self, 1, 0)
    ELSE R(Ok(SingularField(None, self.set)), self, 0, 0)

clone(self, id) ==
    IF self.set
    THEN IF get_ref(self) = Panic THEN R(Panic, self, 0, 0)
         ELSE R(Ok(some(get_ref(self).v.v, id)), self, 1, 0)
    ELSE R(Ok(none), self, 0, 0)

fmt(self) ==
    IF is_some(self)
    THEN IF get_ref(self) = Panic THEN Panic
         ELSE Ok(<<"Some(", get_ref(self).v.v.b, ")">>)
    ELSE Ok(<<"None">>)

\* eq that compares the slots instead of the logical values
eq_slots(self, other) == Ok(OptionRefEq(self.value, other.value))

eq(self, other) ==
    IF as_ref(self) = Panic \/ as_ref(other) = Panic THEN Panic
    ELSE Ok(OptionRefEq(as_ref(self), as_ref(other)))

lt(self, other) ==
    IF as_ref(self) = Panic \/ as_ref(other) = Panic THEN Panic
    ELSE Ok(OptionRefLt(as_ref(self), as_ref(other)))

\* the caller's store through a &mut T obtained from the container
WriteThrough(self, k) ==
    [self EXCEPT !.value = Some([self.value.v EXCEPT !.v = Foo(k)])]

\* the three states of the spec's state machine
StateOf(self) ==
    IF self.set THEN "Present"
    ELSE IF self.value.tag = "Some" THEN "Absent-RetainedAlloc"
    ELSE "Absent-NoAlloc"

\* ---------------------------------------------------------------- state
VARIABLES fields, alive, nextId, last, hist

vars == <<fields, alive, nextId, last, hist>>

\* closures handed to map
MapFns ==
    {[v \in FooValues |-> Foo((v.b + 1) % (MaxB + 1))],
     [v \in FooValues |-> Foo(0)]}

Options == {None} \cup {Some(v) : v \in FooValues}

NoArg == [tag |-> "NoArg"]

Call(op, i, pre, ret, calls, arg) ==
    [op |-> op, i |-> i, pre |-> pre, ret |-> ret, calls |-> calls, arg |-> arg,
     afterTake |-> last.op = "take" /\ last.i = i /\ last.pre.set,
     afterClear |-> last.op = "clear" /\ last.i = i,
     built |-> IF last.op = "from_option" /\ last.i = i THEN last.arg ELSE NoArg]

\* what has happened to a container since it was constructed: whether it has
\* seen only set_default and clear calls, and the boxes allocated for it by
\* its constructor and those calls (no longer counted once another call came)
History(allocs, only) == [allocs |-> IF only THEN allocs ELSE 0, only |-> only]

\* let mut x = SingularField::none(); let mut y = SingularField::none();
Init ==
    /\ fields = [i \in Names |-> none]
    /\ alive = [i \in Names |-> TRUE]
    /\ nextId = 0
    /\ last = [op |-> "init", i |-> 1, pre |-> none, ret |-> Unit, calls |-> 0,
               arg |-> NoArg, afterTake |-> FALSE, afterClear |-> FALSE,
               built |-> NoArg]
    /\ hist = [i \in Names |-> History(0, TRUE)]

\* a binding whose container was moved out or dropped is bound again
Construct(op, i, c, allocs, arg) ==
    /\ ~alive[i]
    /\ nextId + allocs <= MaxAllocs
    /\ fields' = [fields EXCEPT ![i] = c]
    /\ alive' = [alive EXCEPT ![i] = TRUE]
    /\ nextId' = nextId + allocs
    /\ last' = Call(op, i, none, Ok(c), 0, arg)
    /\ hist' = [hist EXCEPT ![i] = History(allocs, TRUE)]

\* one call on container i with outcome r.  fail!() unwinds the task and
\* drops every container it owns; a by-value self is moved out of the binding.
Step(op, i, r, consumed, arg) ==
    /\ alive[i]
    /\ nextId + r.allocs <= MaxAllocs
    /\ nextId' = nextId + r.allocs
    /\ last' = Call(op, i, fields[i], r.ret, r.calls, arg)
    /\ IF r.ret = Panic
       THEN /\ fields' = [j \in Names |-> none]
            /\ alive' = [j \in Names |-> FALSE]
            /\ hist' = [j \in Names |-> History(0, FALSE)]
       ELSE IF consumed
       THEN /\ fields' = [fields EXCEPT ![i] = none]
            /\ alive' = [alive EXCEPT ![i] = FALSE]
            /\ hist' = [hist EXCEPT ![i] = History(0, FALSE)]
       ELSE /\ fields' = [fields EXCEPT ![i] = r.self]
            /\ alive' = alive
            /\ hist' = [hist EXCEPT ![i] =
                          History(IF op = "set_default" THEN @.allocs + r.allocs
                                  ELSE @.allocs,
                                  @.only /\ op \in {"set_default", "clear"})]

\* the caller stores b = k through the &mut T the accessor handed out, if any
StoreVia(ret, self, k) ==
    IF ret = Panic THEN R(Panic, self, 0, 0)
    ELSE IF ret.tag = "None" \/ (ret.tag = "Ok" /\ ret.v = <<>>)
    THEN R(ret, self, 0, 0)
    ELSE R(ret, WriteThrough(self, k), 0, 0)

New_some(i) ==
    \E v \in FooValues : Construct("some", i, some(v, nextId + 1), 1, v)

New_none(i) == Construct("none", i, none, 0, NoArg)

New_from_option(i) ==
    \E o \in Options :
        Construct("from_option", i, from_option(o, nextId + 1),
                  IF o.tag = "Some" THEN 1 ELSE 0, o)

New_default(i) == Construct("default", i, default, 0, NoArg)

IsSome(i) == Step("is_some", i, R(Ok(is_some(fields[i])), fields[i], 0, 0), FALSE, NoArg)

IsNone(i) == Step("is_none", i, R(Ok(is_none(fields[i])), fields[i], 0, 0), FALSE, NoArg)

IntoOption(i) == Step("into_option", i, R(into_option(fields[i]), fields[i], 0, 0), TRUE, NoArg)

AsRef(i) == Step("as_ref", i, R(as_ref(fields[i]), fields[i], 0, 0), FALSE, NoArg)

AsMut(i) ==
    \E k \in 0..MaxB :
        Step("as_mut", i, StoreVia(as_mut(fields[i]), fields[i], k), FALSE, k)

GetRef(i) == Step("get_ref", i, R(get_ref(fields[i]), fields[i], 0, 0), FALSE, NoArg)

GetMutRef(i) ==
    \E k \in 0..MaxB :
        Step("get_mut_ref", i, StoreVia(get_mut_ref(fields[i]), fields[i], k), FALSE, k)

AsSlice(i) == Step("as_slice", i, R(as_slice(fields[i]), fields[i], 0, 0), FALSE, NoArg)

AsMutSlice(i) ==
    \E k \in 0..MaxB :
        Step("as_mut_slice", i, StoreVia(as_mut_slice(fields[i]), fields[i], k), FALSE, k)

Unwrap(i) == Step("unwrap", i, R(unwrap(fields[i]), fields[i], 0, 0), TRUE, NoArg)

UnwrapOr(i) ==
    \E def \in FooValues :
        Step("unwrap_or", i, R(unwrap_or(fields[i], def), fields[i], 0, 0), TRUE, def)

UnwrapOrElse(i) ==
    \E f \in FooValues :
        Step("unwrap_or_else", i, unwrap_or_else(fields[i], f), TRUE, f)

Map(i) ==
    \E f \in MapFns :
        Step("map", i, map(fields[i], f, nextId + 1), TRUE, f)

Iter(i) == Step("iter", i, R(iter(fields[i]), fields[i], 0, 0), FALSE, NoArg)

MutIter(i) ==
    \E k \in 0..MaxB :
        Step("mut_iter", i, StoreVia(mut_iter(fields[i]), fields[i], k), FALSE, k)

Take(i) == Step("take", i, take(fields[i]), FALSE, NoArg)

Clear(i) == Step("clear", i, clear(fields[i]), FALSE, NoArg)

UnwrapOrDefault(i) == Step("unwrap_or_default", i, unwrap_or_default(fields[i]), TRUE, NoArg)

SetDefault(i) == Step("set_default", i, set_default(fields[i], nextId + 1), FALSE, NoArg)

Clone(i) == Step("clone", i, clone(fields[i], nextId + 1), FALSE, NoArg)

Fmt(i) == Step("fmt", i, R(fmt(fields[i]), fields[i], 0, 0), FALSE, NoArg)

\* x == y and x < y borrow both containers
Eq(i) ==
    \E j \in Names \ {i} :
        /\ alive[j]
        /\ Step("eq", i, R(eq(fields[i], fields[j]), fields[i], 0, 0), FALSE, j)

Lt(i) ==
    \E j \in Names \ {i} :
        /\ alive[j]
        /\ Step("lt", i, R(lt(fields[i], fields[j]), fields[i], 0, 0), FALSE, j)

Next ==
    \E i \in Names :
        \/ New_some(i)
        \/ New_none(i)
        \/ New_from_option(i)
        \/ New_default(i)
        \/ IsSome(i)
        \/ IsNone(i)
        \/ IntoOption(i)
        \/ AsRef(i)
        \/ AsMut(i)
        \/ GetRef(i)
        \/ GetMutRef(i)
        \/ AsSlice(i)
        \/ AsMutSlice(i)
        \/ Unwrap(i)
        \/ UnwrapOr(i)
        \/ UnwrapOrElse(i)
        \/ Map(i)
        \/ Iter(i)
        \/ MutIter(i)
        \/ Take(i)
        \/ Clear(i)
        \/ UnwrapOrDefault(i)
        \/ SetDefault(i)
        \/ Clone(i)
        \/ Fmt(i)
        \/ Eq(i)
        \/ Lt(i)

Spec == Init /\ [][Next]_vars

\* ---------------------------------------------------------------- claims

\* C1: in every reachable state, a container whose presence flag is true
\* holds an allocation in its value slot.
C1_SetImpliesValue ==
    \A i \in Names : fields[i].set => fields[i].value.tag = "Some"

\* a container made present again by set_default right after its box was taken
C1_Witness ==
    /\ last.op = "set_default"
    /\ last.afterTake
    /\ fields[last.i].set

\* C2: after set_default the field is present and get_ref reads the default
\* state, whatever the slot held before the call.
C2_SetDefaultReadsDefault ==
    last.op = "set_default" =>
        /\ alive[last.i]
        /\ is_some(fields[last.i])
        /\ get_ref(fields[last.i]).tag = "Ok"
        /\ get_ref(fields[last.i]).v.v = FooDefault
        /\ last.ret = get_ref(fields[last.i])

\* set_default on a present field with non-default contents, no clear between
C2_Witness ==
    /\ last.op = "set_default"
    /\ last.pre.set
    /\ last.pre.value.v.v # FooDefault
    /\ get_ref(fields[last.i]).v.v = FooDefault

\* C3: unwrap_or_default on an absent field with a retained allocation
\* returns a value in the default state and does not fail.
C3_UnwrapOrDefaultReuses ==
    (last.op = "unwrap_or_default" /\ StateOf(last.pre) = "Absent-RetainedAlloc")
        => last.ret = Ok(FooDefault)

\* C4: as_ref, as_slice, iter, unwrap_or, unwrap_or_else and
\* unwrap_or_default never fail, in any of the three states.
C4_PresenceAwareNeverFail ==
    last.op \in {"as_ref", "as_slice", "iter", "unwrap_or", "unwrap_or_else",
                 "unwrap_or_default"}
        => last.ret # Panic

\* C5: clear on a present field lowers the flag and leaves the value slot as
\* it was: same allocation, same contents.
C5_ClearKeepsValue ==
    (last.op = "clear" /\ last.pre.set) =>
        /\ alive[last.i]
        /\ ~fields[last.i].set
        /\ fields[last.i].value.tag = "Some"
        /\ fields[last.i].value = last.pre.value

\* clear of a present field with non-default contents
C5_Witness ==
    /\ last.op = "clear"
    /\ last.pre.set
    /\ last.pre.value.v.v # FooDefault
    /\ StateOf(fields[last.i]) = "Absent-RetainedAlloc"

\* C6: take on a present field holding v returns Some(v) and leaves the
\* container absent with no allocation; a set_default that follows stores a
\* newly allocated default value, not the allocation that was taken.
C6_TakeReleasesBox ==
    /\ [](  (last.op = "take" /\ last.pre.set) =>
              /\ last.ret = Some(last.pre.value.v.v)
              /\ alive[last.i]
              /\ fields[last.i] = SingularField(None, FALSE)
              /\ StateOf(fields[last.i]) = "Absent-NoAlloc")
    /\ [][ (last.op = "take" /\ last.pre.set
             /\ last'.op = "set_default" /\ last'.i = last.i) =>
              /\ nextId' = nextId + 1
              /\ fields'[last.i] = SingularField(Some(Box(nextId', FooDefault)), TRUE)
              /\ fields'[last.i].value.v.id # last.pre.value.v.id ]_vars

\* set_default right after a take that returned non-default contents
C6_Witness ==
    /\ last.op = "set_default"
    /\ last.afterTake
    /\ last.pre = SingularField(None, FALSE)
    /\ fields[last.i].value.v.v = FooDefault

\* C7: take on an absent field returns None and changes neither the flag nor
\* the value slot; a retained allocation stays retained.
C7_TakeAbsentNoEffect ==
    (last.op = "take" /\ ~last.pre.set) =>
        /\ last.ret = None
        /\ alive[last.i]
        /\ fields[last.i] = last.pre

\* take on an absent field that retains an allocation
C7_Witness ==
    /\ last.op = "take"
    /\ StateOf(last.pre) = "Absent-RetainedAlloc"
    /\ StateOf(fields[last.i]) = "Absent-RetainedAlloc"

\* C8: get_ref, get_mut_ref and unwrap fail exactly when the field is absent
\* (with or without a retained allocation) and return the contained value
\* when it is present.
C8_FailIffAbsent ==
    /\ last.op \in {"get_ref", "get_mut_ref"} =>
          /\ (last.ret = Panic) <=> ~last.pre.set
          /\ last.pre.set => last.ret = Ok(last.pre.value.v)
    /\ last.op = "unwrap" =>
          /\ (last.ret = Panic) <=> ~last.pre.set
          /\ last.pre.set => last.ret = Ok(last.pre.value.v.v)

\* get_ref on an absent field whose retained allocation has stale contents
C8_Witness ==
    /\ last.op = "get_ref"
    /\ StateOf(last.pre) = "Absent-RetainedAlloc"
    /\ last.pre.value.v.v # FooDefault
    /\ last.ret = Panic

\* C9: two containers compare equal iff both are absent (in either absent
\* state) or both are present with equal values.
C9_EqLogical ==
    last.op = "eq" =>
        LET a == fields[last.i]
            b == fields[last.arg]
        IN  last.ret = Ok(\/ ~a.set /\ ~b.set
                          \/ a.set /\ b.set /\ a.value.v.v = b.value.v.v)

\* a cleared container compared with one that never held an allocation
C9_Witness ==
    /\ last.op = "eq"
    /\ StateOf(fields[last.i]) = "Absent-RetainedAlloc"
    /\ StateOf(fields[last.arg]) = "Absent-NoAlloc"
    /\ last.ret = Ok(TRUE)

\* C10: no step that keeps the container alive takes it from
\* Absent-RetainedAlloc to Absent-NoAlloc.
C10_RetainedStaysRetained ==
    [][ \A i \in Names :
          (alive[i] /\ alive'[i] /\ StateOf(fields[i]) = "Absent-RetainedAlloc")
              => StateOf(fields'[i]) \in {"Absent-RetainedAlloc", "Present"} ]_vars

\* set_default has just reused a retained allocation
C10_Witness ==
    /\ last.op = "set_default"
    /\ StateOf(last.pre) = "Absent-RetainedAlloc"
    /\ alive[last.i]
    /\ StateOf(fields[last.i]) = "Present"
    /\ fields[last.i].value.v.id = last.pre.value.v.id

\* C11: over a run of set_default and clear calls only, at most one box is
\* ever allocated for the container, its constructor's included: once a box
\* exists, set_default resets it in place and allocates nothing.
C11_OneAllocation ==
    /\ [](\A i \in Names : (alive[i] /\ hist[i].only) => hist[i].allocs <= 1)
    /\ [][ \A i \in Names :
             (alive[i] /\ hist[i].only /\ hist[i].allocs >= 1
                /\ last'.op = "set_default" /\ last'.i = i /\ hist'[i].only) =>
                  /\ nextId' = nextId
                  /\ fields'[i].value.tag = "Some"
                  /\ fields'[i].value.v.id = fields[i].value.v.id ]_vars

\* a set_default that refills a cleared container in a set_default/clear run
C11_Witness ==
    /\ last.op = "set_default"
    /\ last.afterClear
    /\ StateOf(last.pre) = "Absent-RetainedAlloc"
    /\ hist[last.i].only
    /\ hist[last.i].allocs = 1

\* C12: from_option(opt).into_option() == opt, for None and for every Some(v).
C12_OptionRoundTrip ==
    (last.op = "into_option" /\ last.built # NoArg) => last.ret = last.built

\* into_option right after from_option(Some(v)) with v not the default
C12_Witness ==
    /\ last.op = "into_option"
    /\ last.built # NoArg
    /\ last.built.tag = "Some"
    /\ last.built.v # FooDefault
    /\ last.ret = last.built

\* C13: a second clear in a row leaves the flag and the value slot exactly as
\* the first clear left them.
C13_ClearIdempotent ==
    (last.op = "clear" /\ last.afterClear) =>
        /\ alive[last.i]
        /\ fields[last.i] = last.pre

\* clear; clear on a container that retains an allocation
C13_Witness ==
    /\ last.op = "clear"
    /\ last.afterClear
    /\ StateOf(fields[last.i]) = "Absent-RetainedAlloc"

\* C14: as_slice has length 0 when the field is absent (retained allocation
\* or not) and length 1 when present, its element being what get_ref returns.
C14_SliceLength ==
    last.op = "as_slice" =>
        /\ last.ret.tag = "Ok"
        /\ Len(last.ret.v) = (IF last.pre.set THEN 1 ELSE 0)
        /\ last.pre.set => Ok(last.ret.v[1]) = get_ref(last.pre)

\* as_slice on an absent field that retains an allocation
C14_Witness ==
    /\ last.op = "as_slice"
    /\ StateOf(last.pre) = "Absent-RetainedAlloc"
    /\ last.ret = Ok(<<>>)

\* C15: map calls f zero times and yields an absent container when the field
\* is absent, and calls f once and yields a present container holding f(v)
\* when the field is present with v.
C15_MapCallsOnce ==
    last.op = "map" =>
        /\ last.ret.tag = "Ok"
        /\ IF last.pre.set
           THEN /\ last.calls = 1
                /\ last.ret.v.set
                /\ last.ret.v.value.tag = "Some"
                /\ last.ret.v.value.v.v = last.arg[last.pre.value.v.v]
           ELSE /\ last.calls = 0
                /\ ~last.ret.v.set

\* map on an absent field that retains an allocation
C15_Witness ==
    /\ last.op = "map"
    /\ StateOf(last.pre) = "Absent-RetainedAlloc"
    /\ last.calls = 0
    /\ StateOf(last.ret.v) = "Absent-NoAlloc"

\* C16: outside the reuse path, a container in Absent-RetainedAlloc gives the
\* same result as one in Absent-NoAlloc, whatever the stale contents are.
C16_AbsentStatesEquivalent ==
    /\ StateOf(last.pre) = "Absent-RetainedAlloc" =>
          /\ last.op = "is_some" => last.ret = Ok(is_some(none))
          /\ last.op = "is_none" => last.ret = Ok(is_none(none))
          /\ last.op = "as_ref" => last.ret = as_ref(none)
          /\ last.op = "as_slice" => last.ret = as_slice(none)
          /\ last.op = "iter" => last.ret = iter(none)
          /\ last.op = "into_option" => last.ret = into_option(none)
          /\ last.op = "unwrap_or" => last.ret = unwrap_or(none, last.arg)
          /\ last.op = "unwrap_or_else" =>
                /\ last.ret = unwrap_or_else(none, last.arg).ret
                /\ last.calls = unwrap_or_else(none, last.arg).calls
          /\ last.op = "map" =>
                /\ last.ret = map(none, last.arg, 0).ret
                /\ last.calls = map(none, last.arg, 0).calls
          /\ last.op = "take" => last.ret = take(none).ret
          /\ last.op = "clone" => last.ret = clone(none, 0).ret
          /\ last.op = "eq" => last.ret = eq(none, fields[last.arg])
          /\ last.op = "lt" => last.ret = lt(none, fields[last.arg])
    /\ last.op = "eq" =>
          (StateOf(fields[last.arg]) = "Absent-RetainedAlloc"
              => last.ret = eq(last.pre, none))
    /\ last.op = "lt" =>
          (StateOf(fields[last.arg]) = "Absent-RetainedAlloc"
              => last.ret = lt(last.pre, none))

\* as_ref on an absent field whose retained allocation has stale contents
C16_Witness ==
    /\ last.op = "as_ref"
    /\ StateOf(last.pre) = "Absent-RetainedAlloc"
    /\ last.pre.value.v.v # FooDefault
    /\ last.ret = None

\* C17: clone of a container in Absent-RetainedAlloc is in Absent-NoAlloc,
\* clone of a present container is present with an equal value in a box of
\* its own; the clone compares equal to the original, which is unchanged.
C17_CloneLogical ==
    last.op = "clone" =>
        /\ last.ret.tag = "Ok"
        /\ alive[last.i]
        /\ fields[last.i] = last.pre
        /\ eq(last.ret.v, fields[last.i]) = Ok(TRUE)
        /\ IF last.pre.set
           THEN /\ StateOf(last.ret.v) = "Present"
                /\ last.ret.v.value.tag = "Some"
                /\ last.ret.v.value.v.v = last.pre.value.v.v
                /\ last.ret.v.value.v.id # last.pre.value.v.id
           ELSE StateOf(last.ret.v) = "Absent-NoAlloc"

\* clone of an absent field that retains an allocation
C17_Witness ==
    /\ last.op = "clone"
    /\ StateOf(last.pre) = "Absent-RetainedAlloc"
    /\ last.ret = Ok(none)

====
